---- MODULE Spec2Model ----
(***************************************************************************)
(* Excel-AI: the execution/retry loop (app/agent/excel_agent.py), the      *)
(* workspace registry (app/agent/workspace_manager.py), the argument       *)
(* normalizer and schema registry (app/agent/tool_normalizer.py,           *)
(* tool_registry.py) and the tool-process client                           *)
(* (app/mcp/excel_mcp_client.py), as one state machine.                    *)
(*                                                                         *)
(* Strings of the program are sequences of one-character strings, so that  *)
(* strip / replace / endswith / Path(..).name are computed, not assumed.   *)
(***************************************************************************)
EXTENDS Naturals, Integers, Sequences, FiniteSets, TLC

VARIABLES
    state,      \* WorkspaceManager.state: [files, active_file]
    stateFile,  \* the persisted document .workspace_state.json
    tmpFile,    \* the temporary file .workspace_state.tmp of _save_state
    disk,       \* names of the files present under WORKSPACE_ROOT
    lock,       \* WorkspaceManager._lock (asyncio.Lock): [locked, waiters]
    mcp,        \* ExcelMCPClient: [initialized, handshake, unread]
    main,       \* where main() is: initialize, list_tools, loop, exit
    req,        \* one record per user request: the coroutine's frame
    api         \* the last direct call of a registry or schema operation

vars == <<state, stateFile, tmpFile, disk, lock, mcp, main, req, api>>

----------------------------------------------------------------------------
(* Bounds of the model *)

\* number of user requests issued (possibly concurrently)
NumRequests == 2
\* how many times one call_tool invocation may find the pipe broken
MaxRestarts == 2
\* the longest file name handed to _canonical_name, before any extension
MaxNameLen == 5
\* the longest reply handed to extract_json_from_text
MaxTextLen == 7

(* Program constants *)

MAX_RETRIES == 3

----------------------------------------------------------------------------
(* Strings *)

\* Python's None where a string is expected (never a real string: real
\* strings are sequences of one-character strings)
None == <<"<None>">>

\* ".xlsx"
XLSX == <<".", "x", "l", "s", "x">>

\* str.lower() on the characters the model uses
lower_char(c) ==
    CASE c = "A" -> "a"
      [] c = "B" -> "b"
      [] c = "X" -> "x"
      [] c = "L" -> "l"
      [] c = "S" -> "s"
      [] OTHER -> c

lower(s) == [i \in DOMAIN s |-> lower_char(s[i])]

endswith(s, suffix) ==
    /\ Len(s) >= Len(suffix)
    /\ SubSeq(s, Len(s) - Len(suffix) + 1, Len(s)) = suffix

RECURSIVE lstrip(_)
lstrip(s) == IF s # <<>> /\ Head(s) = " " THEN lstrip(Tail(s)) ELSE s

RECURSIVE rstrip(_)
rstrip(s) ==
    IF s # <<>> /\ s[Len(s)] = " " THEN rstrip(SubSeq(s, 1, Len(s) - 1)) ELSE s

\* str.strip()
strip(s) == rstrip(lstrip(s))

\* str.replace("  ", " "): one left-to-right pass over non-overlapping matches
RECURSIVE replace_double_space(_)
replace_double_space(s) ==
    IF Len(s) < 2 THEN s
    ELSE IF s[1] = " " /\ s[2] = " "
         THEN <<" ">> \o replace_double_space(SubSeq(s, 3, Len(s)))
         ELSE <<s[1]>> \o replace_double_space(Tail(s))

RECURSIVE rstrip_slash(_)
rstrip_slash(s) ==
    IF Len(s) > 1 /\ s[Len(s)] = "/"
    THEN rstrip_slash(SubSeq(s, 1, Len(s) - 1)) ELSE s

RECURSIVE after_last_slash(_)
after_last_slash(s) ==
    IF \E i \in DOMAIN s : s[i] = "/"
    THEN after_last_slash(Tail(s)) ELSE s

\* pathlib: Path(s).name, the final path component
path_name(s) == after_last_slash(rstrip_slash(s))

\* WORKSPACE_ROOT / name, as a string; the root is written as its separator
root_join(name) == <<"/">> \o name

\* Python truthiness of an Optional[str]
truthy(s) == s # None /\ s # <<>>

----------------------------------------------------------------------------
(* Workspace registry: app/agent/workspace_manager.py *)

\* The operations are functions of W = [state, stateFile, tmpFile, disk] and
\* return [W, exc, msg, ret]: the workspace after the call, the exception
\* raised ("none" when it returned) with its message, and the value returned.

_empty_state == [files |-> [k \in {} |-> <<>>], active_file |-> None]

\* What a file of the workspace directory holds: nothing (no such file), a
\* complete JSON document (written as the state it encodes), or a proper
\* prefix of the text of one, which json.load rejects.
NoFile == [exists |-> FALSE]
Partial(document) == [partial |-> document]
is_document(f) == DOMAIN f = {"files", "active_file"}

Returned(W, ret) == [W |-> W, exc |-> "none", msg |-> <<>>, ret |-> ret]
Raised(W, exc, msg) == [W |-> W, exc |-> exc, msg |-> msg, ret |-> None]

_canonical_name(filename) ==
    LET stripped == replace_double_space(strip(filename))
    IN  IF ~endswith(lower(stripped), XLSX) THEN stripped \o XLSX ELSE stripped

\* WORKSPACE_ROOT.glob("*.xlsx"): files directly under the root
glob_xlsx(dk) ==
    {n \in dk : endswith(n, XLSX) /\ \A i \in DOMAIN n : n[i] # "/"}

\* (mutant) rename_file without `if not old_path.exists()`
path_exists_unchecked(dk, path) == TRUE

\* Path.exists()
path_exists(dk, path) == \E n \in dk : root_join(n) = path

\* (mutant) _save_state that writes STATE_FILE itself, with no temporary file
save_steps_in_place(W) ==
    <<[W EXCEPT !.stateFile = Partial(W.state)],
      [W EXCEPT !.stateFile = W.state]>>

\* The file-system states _save_state goes through: tmp opened for writing
\* and json.dump under way; tmp complete and closed; os.replace(tmp,
\* STATE_FILE) done.
save_steps(W) ==
    <<[W EXCEPT !.tmpFile = Partial(W.state)],
      [W EXCEPT !.tmpFile = W.state],
      [W EXCEPT !.tmpFile = NoFile, !.stateFile = W.state]>>

_save_state(W) == LET steps == save_steps(W) IN steps[Len(steps)]

\* the state _load_state returns
_load_state(W) ==
    IF W.stateFile = NoFile THEN _empty_state
    ELSE IF ~is_document(W.stateFile) THEN _empty_state
    ELSE W.stateFile

\* (mutant) reconciliation without the "Remove missing files" loop
_reconcile_filesystem_adds_only(W) ==
    LET existing == glob_xlsx(W.disk)
        files == W.state.files
        added == [canon \in (DOMAIN files) \cup existing |->
                    IF canon \in DOMAIN files THEN files[canon]
                    ELSE root_join(canon)]
    IN  _save_state([W EXCEPT !.state.files = added])

_reconcile_filesystem(W) ==
    LET existing == glob_xlsx(W.disk)
        files == W.state.files
        kept == [canon \in (DOMAIN files) \cap existing |-> files[canon]]
        added == [canon \in existing |->
                    IF canon \in DOMAIN kept THEN kept[canon]
                    ELSE root_join(canon)]
    IN  _save_state([W EXCEPT !.state.files = added])

register_file(W, filename) ==
    LET canonical == _canonical_name(filename)
        full_path == root_join(canonical)
        files == W.state.files
        W1 == [W EXCEPT
                 !.state.files =
                    [k \in (DOMAIN files) \cup {canonical} |->
                        IF k = canonical THEN full_path ELSE files[k]],
                 !.state.active_file = canonical]
    IN  Returned(_save_state(W1), full_path)

\* WorkspaceManager(): load the persisted state, reconcile, save
__init__(W) == _reconcile_filesystem([W EXCEPT !.state = _load_state(W)])

get_active_file(W) ==
    LET active == W.state.active_file
    IN  IF ~truthy(active) THEN Returned(W, None)
        ELSE IF active \notin DOMAIN W.state.files
             THEN Raised(W, "KeyError", active)
             ELSE Returned(W, W.state.files[active])

\* (mutant) rename_file that swaps the registry entry before it looks at
\* the disk
rename_file_swaps_first(W, old_name0, new_name0) ==
    LET old_canon == _canonical_name(path_name(old_name0))
        new_canon == _canonical_name(path_name(new_name0))
        files == W.state.files
    IN  IF old_canon \notin DOMAIN files
        THEN Raised(W, "Recoverable",
                    <<"File not tracked: ">> \o path_name(old_name0))
        ELSE
          LET old_path == files[old_canon]
              W1 == [W EXCEPT
                       !.state.files =
                          [k \in ((DOMAIN files) \ {old_canon})
                                    \cup {new_canon} |->
                              IF k = new_canon THEN root_join(new_canon)
                              ELSE files[k]],
                       !.state.active_file = new_canon]
          IN  IF ~path_exists(W.disk, old_path)
              THEN Raised(W1, "Fatal",
                          <<"Physical file missing: ">> \o old_path)
              ELSE Returned(
                     _save_state(
                       [W1 EXCEPT
                          !.disk = {n \in W.disk : root_join(n) # old_path}
                                     \cup {new_canon}]),
                     root_join(new_canon))

rename_file(W, old_name0, new_name0) ==
    LET old_name == path_name(old_name0)
        new_name == path_name(new_name0)
        old_canon == _canonical_name(old_name)
        new_canon == _canonical_name(new_name)
        files == W.state.files
    IN  IF old_canon \notin DOMAIN files
        THEN Raised(W, "Recoverable", <<"File not tracked: ">> \o old_name)
        ELSE
          LET old_path == files[old_canon]
              new_path == root_join(new_canon)
          IN  IF ~path_exists(W.disk, old_path)
              THEN Raised(W, "Fatal", <<"Physical file missing: ">> \o old_path)
              ELSE
                LET W1 == [W EXCEPT
                             !.disk = {n \in W.disk : root_join(n) # old_path}
                                        \cup {new_canon},
                             !.state.files =
                                [k \in ((DOMAIN files) \ {old_canon})
                                          \cup {new_canon} |->
                                    IF k = new_canon THEN new_path
                                    ELSE files[k]],
                             !.state.active_file = new_canon]
                IN  Returned(_save_state(W1), new_path)

\* A set of outcomes: when several files on disk differ only in case, the
\* dict built from glob() keeps whichever the directory listing yields last.
resolve_file(W, filename0) ==
    LET filename == IF truthy(filename0) THEN path_name(filename0)
                    ELSE filename0
        W1 == _reconcile_filesystem(W)
    IN  IF ~truthy(filename)
        THEN LET a == get_active_file(W1)
             IN  IF a.exc # "none" THEN {a}
                 ELSE IF truthy(a.ret) THEN {a}
                 ELSE {Raised(W1, "Recoverable",
                              <<"No active workbook available">>)}
        ELSE
          LET canon == _canonical_name(filename)
              matches == {p \in glob_xlsx(W1.disk) : lower(p) = lower(canon)}
          IN  IF matches = {}
              THEN {Raised(W1, "Recoverable",
                           <<"File '">> \o filename \o <<"' not found">>)}
              ELSE {LET files == W1.state.files
                        W2 == [W1 EXCEPT
                                 !.state.files =
                                    [k \in (DOMAIN files) \cup {real} |->
                                        IF k = real THEN root_join(real)
                                        ELSE files[k]],
                                 !.state.active_file = real]
                    IN  Returned(_save_state(W2), root_join(real))
                    : real \in matches}

----------------------------------------------------------------------------
(* JSON values of a proposal's arguments *)

Null == [t |-> "null"]
Str(s) == [t |-> "str", s |-> s]
List(l) == [t |-> "list", l |-> l]

\* the empty mapping {}
NoArgs == [k \in {} |-> Null]

\* dict.get(key): None when the key is absent
dict_get(args, key) == IF key \in DOMAIN args THEN args[key] ELSE Null

\* a mapping with key set to value
dict_set(args, key, value) ==
    [k \in (DOMAIN args) \cup {key} |-> IF k = key THEN value ELSE args[k]]

\* a JSON object; the model's objects have at most one member, whose key
\* is not kept
Dict(members) == [t |-> "dict", m |-> members]

----------------------------------------------------------------------------
(* Proposal extraction: app/agent/utils.py *)

\* A reply is a sequence over five characters: the braces, the double
\* quote, "k" for a member's key with its colon (the text "k": of the
\* reply, which holds quotes itself), and "x" for any other character. The
\* JSON texts over them:
\*     value ::= object | string        object ::= {} | {k value}
\*     string ::= " any characters but the quote and k "

\* str.find(c): the first index of c in s, 0 when there is none
find(s, c) ==
    IF \E i \in DOMAIN s : s[i] = c
    THEN CHOOSE i \in DOMAIN s : s[i] = c /\ \A j \in 1..(i - 1) : s[j] # c
    ELSE 0

\* the decoder on a prefix of s: the value decoded and the rest of s
NoParse == [ok |-> FALSE, val |-> Null, rest |-> <<>>]

RECURSIVE parse_value(_)
parse_value(s) ==
    IF s = <<>> THEN NoParse
    ELSE IF Head(s) = "\""
    THEN LET t == Tail(s)
             j == find(t, "\"")
         IN  IF j = 0 \/ find(SubSeq(t, 1, j - 1), "k") # 0 THEN NoParse
             ELSE [ok |-> TRUE, val |-> Str(SubSeq(t, 1, j - 1)),
                   rest |-> SubSeq(t, j + 1, Len(t))]
    ELSE IF Head(s) = "{"
    THEN LET t == Tail(s)
         IN  IF t = <<>> THEN NoParse
             ELSE IF Head(t) = "}"
             THEN [ok |-> TRUE, val |-> Dict(<<>>), rest |-> Tail(t)]
             ELSE IF Head(t) = "k"
             THEN LET member == parse_value(Tail(t))
                  IN  IF member.ok /\ member.rest # <<>>
                         /\ Head(member.rest) = "}"
                      THEN [ok |-> TRUE, val |-> Dict(<<member.val>>),
                            rest |-> Tail(member.rest)]
                      ELSE NoParse
             ELSE NoParse
    ELSE NoParse

\* json.loads(s): the value, or JSONDecodeError
json_loads(s) ==
    LET p == parse_value(s)
    IN  IF p.ok /\ p.rest = <<>> THEN [exc |-> "none", val |-> p.val]
        ELSE [exc |-> "JSONDecodeError", val |-> Null]

\* the loop `for i in range(start, len(text))` from index i on with the
\* counter at stack: the value returned, Null for None
RECURSIVE scan_braces(_, _, _, _)
scan_braces(text, start, i, stack) ==
    IF i > Len(text) THEN Null
    ELSE IF text[i] = "{" THEN scan_braces(text, start, i + 1, stack + 1)
    ELSE IF text[i] = "}"
    THEN IF stack - 1 = 0
         THEN LET loaded == json_loads(SubSeq(text, start, i))
              IN  IF loaded.exc = "none" THEN loaded.val ELSE Null
         ELSE scan_braces(text, start, i + 1, stack - 1)
    ELSE scan_braces(text, start, i + 1, stack)

\* (mutant) extraction that ends the span at the first closing brace,
\* without counting depth
extract_json_to_first_close(text) ==
    LET start == find(text, "{")
    IN  IF start = 0 THEN Null
        ELSE LET close == find(SubSeq(text, start, Len(text)), "}")
             IN  IF close = 0 THEN Null
                 ELSE LET loaded ==
                              json_loads(SubSeq(text, start, start + close - 1))
                      IN  IF loaded.exc = "none" THEN loaded.val ELSE Null

extract_json_from_text(text) ==
    IF text = <<>> THEN Null
    ELSE LET start == find(text, "{")
         IN  IF start = 0 THEN Null
             ELSE scan_braces(text, start, start, 0)

----------------------------------------------------------------------------
(* Schema registry: app/agent/tool_registry.py *)

TOOL_SCHEMAS ==
    [create_workbook |-> <<"filepath">>,
     rename_workbook |-> <<"old_filepath", "new_filepath">>,
     create_worksheet |-> <<"filepath", "sheet_name">>,
     create_multiple_worksheets |-> <<"filepath", "sheet_names">>,
     get_workbook_metadata |-> <<"filepath">>,
     write_data_to_excel |-> <<"filepath", "sheet_name", "data">>,
     read_data_from_excel |-> <<"filepath", "sheet_name">>,
     format_range |-> <<"filepath", "sheet_name", "start_cell">>,
     merge_cells |-> <<"filepath", "sheet_name", "start_cell", "end_cell">>,
     unmerge_cells |-> <<"filepath", "sheet_name", "start_cell", "end_cell">>,
     get_merged_cells |-> <<"filepath", "sheet_name">>,
     apply_formula |-> <<"filepath", "sheet_name", "cell", "formula">>,
     validate_formula_syntax |-> <<"filepath", "sheet_name", "cell", "formula">>,
     create_chart |->
        <<"filepath", "sheet_name", "data_range", "chart_type", "target_cell">>,
     create_pivot_table |->
        <<"filepath", "sheet_name", "data_range", "target_cell", "rows",
          "values">>,
     create_table |-> <<"filepath", "sheet_name", "data_range">>,
     copy_worksheet |-> <<"filepath", "source_sheet", "target_sheet">>,
     delete_worksheet |-> <<"filepath", "sheet_name">>,
     rename_worksheet |-> <<"filepath", "old_name", "new_name">>,
     copy_range |->
        <<"filepath", "sheet_name", "source_start", "source_end",
          "target_start">>,
     delete_range |-> <<"filepath", "sheet_name", "start_cell", "end_cell">>,
     validate_excel_range |-> <<"filepath", "sheet_name", "start_cell">>,
     get_data_validation_info |-> <<"filepath", "sheet_name">>,
     insert_rows |-> <<"filepath", "sheet_name", "start_row">>,
     insert_columns |-> <<"filepath", "sheet_name", "start_col">>,
     delete_sheet_rows |-> <<"filepath", "sheet_name", "start_row">>,
     delete_sheet_columns |-> <<"filepath", "sheet_name", "start_col">>]

\* (mutant) validation that stops at the first absent or null field
missing_fields_first_only(required, arguments) ==
    LET absent(field) ==
            field \notin DOMAIN arguments \/ arguments[field] = Null
        missing == SelectSeq(required, absent)
    IN  IF missing = <<>> THEN <<>> ELSE <<Head(missing)>>

\* the required fields that are absent or null, in schema order
missing_fields(required, arguments) ==
    LET absent(field) ==
            field \notin DOMAIN arguments \/ arguments[field] = Null
    IN  SelectSeq(required, absent)

validate_tool_call(tool_name, arguments) ==
    IF tool_name \notin DOMAIN TOOL_SCHEMAS
    THEN [ok |-> FALSE, msg |-> <<"Unknown tool: ", tool_name>>]
    ELSE LET missing == missing_fields(TOOL_SCHEMAS[tool_name], arguments)
         IN  IF missing # <<>>
             THEN [ok |-> FALSE,
                   msg |-> <<"Missing required fields: ">> \o missing]
             ELSE [ok |-> TRUE, msg |-> <<>>]

----------------------------------------------------------------------------
(* Default sheet guard: app/agent/default_sheet_guard.py *)

REQUIRES_SHEET ==
    {"write_data_to_excel", "read_data_from_excel", "format_range",
     "merge_cells", "unmerge_cells", "apply_formula", "create_chart",
     "create_table"}

tool_requires_sheet(tool_name) == tool_name \in REQUIRES_SHEET

----------------------------------------------------------------------------
(* Argument normalizer: app/agent/tool_normalizer.py *)

ALIAS_MAP ==
    [workbook |-> "filepath", workbook_name |-> "filepath",
     file |-> "filepath",
     old_file |-> "old_filepath", new_file |-> "new_filepath",
     worksheet |-> "sheet_name", worksheet_name |-> "sheet_name",
     sheet |-> "sheet_name",
     sheets |-> "sheet_names", worksheets |-> "sheet_names",
     names |-> "sheet_names"]

canonical_key(key) == IF key \in DOMAIN ALIAS_MAP THEN ALIAS_MAP[key] ELSE key

\* Keys rewritten through ALIAS_MAP. When two keys of args have the same
\* canonical key the dict keeps the later one; the proposals of the model
\* never carry two such keys.
alias_keys(args) ==
    [c \in {canonical_key(k) : k \in DOMAIN args} |->
        args[CHOOSE k \in DOMAIN args : canonical_key(k) = c]]

\* str.strip("[]'\" ")
bracket_char(c) == c \in {"[", "]", "'", "\"", " "}

RECURSIVE lstrip_brackets(_)
lstrip_brackets(s) ==
    IF s # <<>> /\ bracket_char(Head(s)) THEN lstrip_brackets(Tail(s)) ELSE s

RECURSIVE rstrip_brackets(_)
rstrip_brackets(s) ==
    IF s # <<>> /\ bracket_char(s[Len(s)])
    THEN rstrip_brackets(SubSeq(s, 1, Len(s) - 1)) ELSE s

strip_brackets(s) == rstrip_brackets(lstrip_brackets(s))

\* str.split(",")
RECURSIVE split_comma(_)
split_comma(s) ==
    IF \A i \in DOMAIN s : s[i] # ","
    THEN <<s>>
    ELSE LET i == CHOOSE j \in DOMAIN s :
                    s[j] = "," /\ \A k \in 1..(j - 1) : s[k] # ","
         IN  <<SubSeq(s, 1, i - 1)>> \o split_comma(SubSeq(s, i + 1, Len(s)))

\* [name.strip() for name in s.split(",") if name.strip()]
RECURSIVE strip_names(_)
strip_names(l) ==
    IF l = <<>> THEN <<>>
    ELSE LET x == strip(Head(l))
         IN  (IF x # <<>> THEN <<x>> ELSE <<>>) \o strip_names(Tail(l))

\* the loop filling cleaned
RECURSIVE cleaned(_)
cleaned(l) ==
    IF l = <<>> THEN <<>>
    ELSE LET x == strip_brackets(Head(l))
         IN  (IF x # <<>> THEN <<x>> ELSE <<>>) \o cleaned(Tail(l))

\* the "Normalize sheet list input" block; exc is "TypeError" when the value
\* cannot be iterated
normalize_sheet_names(normalized) ==
    IF "sheet_names" \notin DOMAIN normalized
    THEN [exc |-> "none", args |-> normalized]
    ELSE LET v == normalized["sheet_names"]
         IN  IF v = Null
             THEN [exc |-> "TypeError", args |-> normalized]
             ELSE LET l == IF v.t = "str"
                           THEN strip_names(split_comma(v.s))
                           ELSE v.l
                  IN  [exc |-> "none",
                       args |-> dict_set(normalized, "sheet_names",
                                    List(cleaned(l)))]

\* the "Resolve primary file" / "old_filepath" blocks: resolve key through the
\* workspace. out is an outcome [W, exc, msg, args] of the steps before.
resolve_argument(out, key, applies) ==
    IF out.exc # "none" \/ ~applies \/ key \notin DOMAIN out.args
       \/ out.args[key] = Null
    THEN {out}
    ELSE {IF r.exc # "none"
          THEN [W |-> r.W, exc |-> r.exc, msg |-> r.msg, args |-> out.args]
          ELSE [W |-> r.W, exc |-> "none", msg |-> <<>>,
                args |-> dict_set(out.args, key, Str(r.ret))]
          : r \in resolve_file(out.W, out.args[key].s)}

\* the "new_filepath" block: only canonicalize, never resolve
canonicalize_new_filepath(out) ==
    IF out.exc # "none" \/ "new_filepath" \notin DOMAIN out.args
       \/ out.args["new_filepath"] = Null
    THEN out
    ELSE [out EXCEPT !.args =
            dict_set(out.args, "new_filepath",
                Str(_canonical_name(path_name(out.args["new_filepath"].s))))]

\* (mutant) normalization that resolves every file argument it is given,
\* the one of create_workbook and the rename target included
normalize_arguments_resolves_all(W, args, tool_name) ==
    LET n == normalize_sheet_names(alias_keys(args))
        o0 == [W |-> W, exc |-> n.exc, msg |-> <<>>, args |-> n.args]
        s1 == resolve_argument(o0, "filepath", TRUE)
        s2 == UNION {resolve_argument(o, "old_filepath", TRUE) : o \in s1}
    IN  UNION {resolve_argument(o, "new_filepath", TRUE) : o \in s2}

\* The set of outcomes [W, exc, msg, args] of normalize_arguments
normalize_arguments(W, args, tool_name) ==
    LET n == normalize_sheet_names(alias_keys(args))
        o0 == [W |-> W, exc |-> n.exc, msg |-> <<>>, args |-> n.args]
        s1 == resolve_argument(o0, "filepath", tool_name # "create_workbook")
        s2 == UNION {resolve_argument(o, "old_filepath", TRUE) : o \in s1}
    IN  {canonicalize_new_filepath(o) : o \in s2}

----------------------------------------------------------------------------
(* The inputs of the model *)

Requests == 1..NumRequests

\* Python's None where a tool name is expected
NoTool == "<None>"

FileA == <<"a">>
FileB == <<"b", ".", "x", "l", "s", "x">>
\* a name with a directory component
DirB == <<"d", "/", "B">>
Sheet1 == <<"S", "1">>
Sheet2 == <<"S", "2">>
Data == Str(<<"d">>)

Proposal(tool_name, arguments) ==
    [ok |-> TRUE, tool_name |-> tool_name, arguments |-> arguments]

\* What get_llm_decision can return: no parseable reply, a reply without a
\* tool name, and proposals that are valid, that miss fields, that carry
\* nulls, that use aliases, that carry a field their tool does not take,
\* that name an unknown tool.
Replies ==
    {[ok |-> FALSE, tool_name |-> NoTool, arguments |-> NoArgs],
     Proposal(NoTool, NoArgs),
     Proposal("create_workbook", "filepath" :> Str(FileA)),
     Proposal("create_workbook", "file" :> Str(FileB)),
     Proposal("create_workbook", NoArgs),
     Proposal("rename_workbook",
              ("old_filepath" :> Str(FileA)) @@ ("new_file" :> Str(FileB))),
     Proposal("rename_workbook", "old_filepath" :> Str(FileA)),
     Proposal("rename_workbook",
              ("file" :> Str(FileA)) @@ ("old_filepath" :> Str(FileA))
                @@ ("new_filepath" :> Str(FileB))),
     Proposal("create_multiple_worksheets",
              ("filepath" :> Str(FileA))
                @@ ("sheets" :> List(<<Sheet1, Sheet2>>))),
     Proposal("create_multiple_worksheets",
              ("filepath" :> Str(FileA)) @@ ("sheet_names" :> Null)),
     Proposal("write_data_to_excel",
              ("filepath" :> Str(FileA)) @@ ("data" :> Data)),
     Proposal("write_data_to_excel",
              ("filepath" :> Str(<<>>)) @@ ("sheet_name" :> Str(Sheet1))
                @@ ("data" :> Data)),
     Proposal("create_worksheet", "sheet_name" :> Str(Sheet1)),
     Proposal("get_workbook_metadata", "filepath" :> Null),
     Proposal("bogus_tool", "filepath" :> Str(FileB))}

\* the names out-of-band creation and deletion act on
DiskNames == {_canonical_name(FileA), _canonical_name(FileB)}

----------------------------------------------------------------------------
(* Workspace lock: WorkspaceManager.acquire_lock / release_lock *)

\* asyncio.Lock.acquire() returns at once when the lock is free and nobody
\* waits; otherwise the caller queues and is woken first-in first-out.
\* (mutant) acquire() that looks only at the queue, not at the holder
lock_is_free_ignores_holder(l) == l.waiters = <<>>

lock_is_free(l) == ~l.locked /\ l.waiters = <<>>

release_lock(l) == IF l.locked THEN [l EXCEPT !.locked = FALSE] ELSE l

\* (mutant) the release written after the loop and before each return,
\* instead of in a finally: block
finally_block_returns_only(l, how) ==
    IF how = "raise" THEN l ELSE release_lock(l)

\* the finally: block of execute_with_retry; how is "return" or "raise"
finally_block(l, how) == release_lock(l)

----------------------------------------------------------------------------
(* Execution loop: ExcelAgent.execute_with_retry *)

\* The frame of call_tool: who awaits it (purpose), where it is (phase), its
\* request, and two history variables: how many times it restarted the
\* child process and what the last restart's handshake gave.
NoCall == [purpose |-> "none", phase |-> "none", tool |-> NoTool,
           filepath |-> None, index |-> 0, restarts |-> 0,
           handshake |-> "none"]

\* The frame of a request that has not started. error_at (the attempt that
\* recorded error) and the counters llm_calls and dispatches are history
\* variables of the running request; logs counts the records the request
\* has appended to the execution log (.execution_log.jsonl). success is the
\* local of execute_batch_worksheets: what the latest create_worksheet call
\* of the running batch returned, "unbound" before the first. registry is a
\* history variable: WorkspaceManager.state as it was when the running
\* attempt entered its create_workbook block, before register_file.
IdleFrame ==
    [pc |-> "idle", attempt |-> 0, error |-> None, error_at |-> 0,
     tool_name |-> NoTool, arguments |-> NoArgs,
     call |-> NoCall, outcome |-> "none", result |-> None,
     success |-> "unbound", registry |-> _empty_state,
     llm_calls |-> 0, dispatches |-> 0, logs |-> 0]

\* The frame of a request whose execute_with_retry has ended: only how it
\* ended is kept
DoneFrame(outcome) == [IdleFrame EXCEPT !.pc = "done", !.outcome = outcome]

W0 == [state |-> state, stateFile |-> stateFile, tmpFile |-> tmpFile,
       disk |-> disk]

SetW(W) ==
    /\ state' = W.state
    /\ stateFile' = W.stateFile
    /\ tmpFile' = W.tmpFile
    /\ disk' = W.disk

\* `return success, result`, or an exception leaving the try: block: the
\* finally: block is next
Done(rq, outcome, result) ==
    [rq EXCEPT !.pc = "finally", !.outcome = outcome, !.result = result,
               !.tool_name = NoTool, !.arguments = NoArgs, !.call = NoCall,
               !.registry = _empty_state]

\* (mutant) only the first error of a request is recorded
record_error_keeps_first(rq, error) ==
    IF rq.error = None
    THEN [rq EXCEPT !.error = error, !.error_at = rq.attempt]
    ELSE rq

\* error = ...
record_error(rq, error) == [rq EXCEPT !.error = error, !.error_at = rq.attempt]

\* (mutant) one iteration too many: range(self.MAX_RETRIES + 1)
next_attempt_off_by_one(rq) ==
    IF rq.attempt <= MAX_RETRIES
    THEN [rq EXCEPT !.pc = "llm", !.attempt = rq.attempt + 1,
                    !.tool_name = NoTool, !.arguments = NoArgs,
                    !.call = NoCall, !.success = "unbound",
                    !.registry = _empty_state]
    ELSE Done(rq, "exhausted",
              <<"Max retries exceeded. Last error: ">> \o rq.error)

\* (mutant) the loop with `error = None` at the head of its body
next_attempt_clears_error(rq) ==
    IF rq.attempt < MAX_RETRIES
    THEN [rq EXCEPT !.pc = "llm", !.attempt = rq.attempt + 1,
                    !.tool_name = NoTool, !.arguments = NoArgs,
                    !.call = NoCall, !.success = "unbound",
                    !.registry = _empty_state, !.error = None]
    ELSE Done(rq, "exhausted",
              <<"Max retries exceeded. Last error: ">> \o rq.error)

\* `continue`, or the end of the loop body: the next iteration of
\* `for _ in range(self.MAX_RETRIES)`, or the return after the loop
next_attempt(rq) ==
    IF rq.attempt < MAX_RETRIES
    THEN [rq EXCEPT !.pc = "llm", !.attempt = rq.attempt + 1,
                    !.tool_name = NoTool, !.arguments = NoArgs,
                    !.call = NoCall, !.success = "unbound",
                    !.registry = _empty_state]
    ELSE Done(rq, "exhausted",
              <<"Max retries exceeded. Last error: ">> \o rq.error)

\* (mutant) one except clause for every WorkspaceError: fatal ones retried
handle_exception_retries_fatal(rq, exc, msg) ==
    CASE exc \in {"Recoverable", "Fatal"} ->
            next_attempt(record_error(rq, msg))
      [] OTHER -> Done(rq, "raised", <<exc>>)

\* except RecoverableWorkspaceError / except FatalWorkspaceError / any other
\* exception, which leaves execute_with_retry through the finally: block
handle_exception(rq, exc, msg) ==
    CASE exc = "Recoverable" -> next_attempt(record_error(rq, msg))
      [] exc = "Fatal" -> Done(rq, "fatal", <<"Fatal workspace error: ">> \o msg)
      [] OTHER -> Done(rq, "raised", <<exc>>)

\* WorkspaceManager.log_execution: one record appended to the log
log_execution(rq) == [rq EXCEPT !.logs = rq.logs + 1]

\* workspace.log_execution(...) and what follows it in the loop body
log_and_finish(rq, success, result) ==
    IF success THEN Done(log_execution(rq), "success", result)
    ELSE next_attempt(record_error(log_execution(rq), result))

\* a step of request r inside the try: block: its frame becomes rq
Step(r, rq) ==
    /\ req' = [req EXCEPT ![r] = rq]
    /\ UNCHANGED lock

\* finally: workspace.release_lock(); then execute_with_retry ends, by the
\* return or by the exception that is propagating
Finally(r) ==
    /\ req[r].pc = "finally"
    /\ lock' = finally_block(lock, IF req[r].outcome = "raised" THEN "raise"
                                   ELSE "return")
    /\ req' = [req EXCEPT ![r] = DoneFrame(req[r].outcome)]
    /\ UNCHANGED <<state, stateFile, tmpFile, disk, mcp, main, api>>

\* error = None; await workspace.acquire_lock(). The requests are numbered
\* in the order in which they reach acquire_lock.
AcquireLock(r) ==
    /\ main = "loop"
    /\ req[r].pc = "idle"
    /\ \A q \in Requests : q < r => req[q].pc # "idle"
    /\ IF lock_is_free(lock)
       THEN /\ lock' = [lock EXCEPT !.locked = TRUE]
            /\ req' = [req EXCEPT ![r].pc = "llm", ![r].attempt = 1]
       ELSE /\ lock' = [lock EXCEPT !.waiters = Append(lock.waiters, r)]
            /\ req' = [req EXCEPT ![r].pc = "waiting"]
    /\ UNCHANGED <<state, stateFile, tmpFile, disk, mcp, main, api>>

\* the first waiter of a released lock resumes inside acquire()
LockWakeup(r) ==
    /\ req[r].pc = "waiting"
    /\ ~lock.locked
    /\ lock.waiters # <<>> /\ Head(lock.waiters) = r
    /\ lock' = [locked |-> TRUE, waiters |-> Tail(lock.waiters)]
    /\ req' = [req EXCEPT ![r].pc = "llm", ![r].attempt = 1]
    /\ UNCHANGED <<state, stateFile, tmpFile, disk, mcp, main, api>>

\* build_prompt(user_input, error): the error section of the prompt, empty
\* when error is None or the empty string
build_prompt(error) ==
    IF truthy(error) THEN <<"Previous attempt failed:">> \o error ELSE <<>>

\* (mutant) the attempt without a proposal is recorded in the execution log
no_proposal_is_logged(rq) ==
    next_attempt(record_error(log_execution(rq),
                              <<"LLM failed to produce valid JSON">>))

\* if not success or not tool_name: error = "LLM failed to produce valid
\* JSON"; continue
no_proposal(rq) ==
    next_attempt(record_error(rq, <<"LLM failed to produce valid JSON">>))

\* prompt = build_prompt(user_input, error) with the error the frame holds;
\* get_llm_decision(prompt)
LLMDecision(r) ==
    /\ req[r].pc = "llm"
    /\ \E reply \in Replies :
         LET rq == [req[r] EXCEPT !.llm_calls = req[r].llm_calls + 1]
         IN  IF ~reply.ok \/ reply.tool_name = NoTool
             THEN Step(r, no_proposal(rq))
             ELSE Step(r, [rq EXCEPT !.pc = "normalize",
                                     !.tool_name = reply.tool_name,
                                     !.arguments = reply.arguments])
    /\ UNCHANGED <<state, stateFile, tmpFile, disk, mcp, main, api>>

\* arguments = normalize_arguments(arguments, self.state, tool_name)
Normalize(r) ==
    /\ req[r].pc = "normalize"
    /\ \E o \in normalize_arguments(W0, req[r].arguments, req[r].tool_name) :
         /\ SetW(o.W)
         /\ IF o.exc = "none"
            THEN Step(r, [req[r] EXCEPT !.pc = "default_sheet",
                                        !.arguments = o.args])
            ELSE Step(r, handle_exception(req[r], o.exc, o.msg))
    /\ UNCHANGED <<mcp, main, api>>

----------------------------------------------------------------------------
(* Tool-process client: app/mcp/excel_mcp_client.py *)

\* what the child process answers to the initialize request
Handshakes == {"ok", "no_output", "error"}

\* what readline() yields for a tools/call request
Responses == {"ok", "rpc_error", "is_error", "unparseable"}

\* (mutant) initialize() without `if "error" in resp: return False`
initialize_ignores_error_response(m, hs) ==
    IF hs # "no_output"
    THEN [m EXCEPT !.initialized = TRUE, !.handshake = hs, !.unread = 0]
    ELSE [m EXCEPT !.handshake = hs, !.unread = 0]

\* initialize(): launch a child, write the initialize request, read one
\* line; hs is what the new child answers. Only a good answer marks the
\* client ready; nothing here marks it not ready. handshake is a history
\* variable: what the handshake with the current child gave. unread counts
\* the request lines written to self.process whose response line has not
\* been read; the pipes of a new child start with none.
initialize(m, hs) ==
    IF hs = "ok"
    THEN [m EXCEPT !.initialized = TRUE, !.handshake = hs, !.unread = 0]
    ELSE [m EXCEPT !.handshake = hs, !.unread = 0]

\* self.process.stdin.write(json.dumps(msg) + "\n"); flush()
write_request(m) == [m EXCEPT !.unread = m.unread + 1]

\* (mutant) call_tool that returns without reading the response line
read_response_skipped(m) == m

\* line = await asyncio.to_thread(self.process.stdout.readline)
read_response(m) == [m EXCEPT !.unread = m.unread - 1]

\* _restart(): close() terminates the child; then not ready; then initialize()
\* (mutant) _restart() without `self.initialized = False`
_restart_keeps_ready(m, hs) == initialize(m, hs)

_restart(m, hs) == initialize([m EXCEPT !.initialized = FALSE], hs)

\* await self.mcp_client.call_tool(tool, {"filepath": filepath, ...})
start_call(rq, purpose, tool, filepath, index) ==
    [rq EXCEPT !.pc = "call",
               !.call = [NoCall EXCEPT !.purpose = purpose, !.phase = "enter",
                                       !.tool = tool, !.filepath = filepath,
                                       !.index = index]]

\* success, result = await self.mcp_client.call_tool("create_worksheet", ..)
batch_call_returned(rq, ok) ==
    [rq EXCEPT !.success = IF ok THEN "True" ELSE "False"]

\* (mutant) execute_batch_worksheets without `if not success: return`: the
\* loop goes on after a failed call and the last call decides the result
call_returns_batch_goes_on(rq, ok, text, sheets) ==
    CASE rq.call.purpose = "metadata" ->
            [rq EXCEPT !.pc = "validate", !.call = NoCall,
                       !.arguments =
                          IF ok /\ sheets # <<>>
                          THEN dict_set(rq.arguments, "sheet_name",
                                        Str(sheets[1]))
                          ELSE rq.arguments]
      [] rq.call.purpose = "batch" ->
            LET names == rq.arguments["sheet_names"].l
                returned == batch_call_returned(rq, ok)
            IN  IF rq.call.index < Len(names)
                THEN start_call(returned, "batch", "create_worksheet",
                                rq.call.filepath, rq.call.index + 1)
                ELSE log_and_finish(returned, ok, text)
      [] OTHER -> log_and_finish(rq, ok, text)

\* what the caller of call_tool does with (ok, text): the rest of
\* resolve_default_sheet, of execute_batch_worksheets, or of the loop body
call_returns(rq, ok, text, sheets) ==
    CASE rq.call.purpose = "metadata" ->
            [rq EXCEPT !.pc = "validate", !.call = NoCall,
                       !.arguments =
                          IF ok /\ sheets # <<>>
                          THEN dict_set(rq.arguments, "sheet_name",
                                        Str(sheets[1]))
                          ELSE rq.arguments]
      [] rq.call.purpose = "batch" ->
            LET names == rq.arguments["sheet_names"].l
                returned == batch_call_returned(rq, ok)
            IN  IF ~ok THEN log_and_finish(returned, FALSE, text)
                ELSE IF rq.call.index < Len(names)
                THEN start_call(returned, "batch", "create_worksheet",
                                rq.call.filepath, rq.call.index + 1)
                ELSE log_and_finish(returned, TRUE, <<"Created worksheets">>)
      [] OTHER -> log_and_finish(rq, ok, text)

\* call_tool up to the write: not initialized, written, or BrokenPipeError.
\* The write finds the pipe broken when the child process has died since
\* it was launched; that is the environment's choice.
CallWrite(r) ==
    /\ req[r].pc = "call" /\ req[r].call.phase = "enter"
    /\ \E broken \in BOOLEAN :
         /\ broken => req[r].call.restarts < MaxRestarts
         /\ IF ~mcp.initialized
            THEN /\ ~broken
                 /\ Step(r, call_returns(req[r], FALSE,
                                         <<"Client not initialized">>, <<>>))
                 /\ mcp' = mcp
            ELSE IF ~broken
            THEN /\ Step(r, [req[r] EXCEPT !.call.phase = "read"])
                 /\ mcp' = write_request(mcp)
            ELSE /\ Step(r, [req[r] EXCEPT !.call.phase = "restart"])
                 /\ mcp' = mcp
    /\ UNCHANGED <<state, stateFile, tmpFile, disk, main, api>>

\* except BrokenPipeError: await self._restart(); return await self.call_tool(..)
CallRestart(r) ==
    /\ req[r].pc = "call" /\ req[r].call.phase = "restart"
    /\ \E hs \in Handshakes :
         /\ mcp' = _restart(mcp, hs)
         /\ Step(r, [req[r] EXCEPT !.call.phase = "enter",
                                   !.call.handshake = hs,
                                   !.call.restarts = req[r].call.restarts + 1])
    /\ UNCHANGED <<state, stateFile, tmpFile, disk, main, api>>

\* the tool process creates the workbook it was asked for
tool_effect(dk, tool, filepath, resp) ==
    IF tool = "create_workbook" /\ resp = "ok"
    THEN dk \cup {Tail(filepath)} ELSE dk

response_text(resp) ==
    CASE resp = "ok" -> <<"Success">>
      [] resp = "rpc_error" -> <<"tool process error">>
      [] resp = "is_error" -> <<"tool process error">>
      [] OTHER -> <<"JSONDecodeError">>

\* line = readline(); json.loads(line); ... : one response line per request.
\* A child that died yields the empty line, which does not parse.
CallRead(r) ==
    /\ req[r].pc = "call" /\ req[r].call.phase = "read"
    /\ \E resp \in Responses, sheets \in {<<>>, <<Sheet1>>} :
         /\ (resp # "ok" \/ req[r].call.tool # "get_workbook_metadata")
                => sheets = <<>>
         /\ disk' = tool_effect(disk, req[r].call.tool,
                                req[r].call.filepath, resp)
         /\ mcp' = read_response(mcp)
         /\ Step(r, call_returns(req[r], resp = "ok", response_text(resp),
                                 sheets))
    /\ UNCHANGED <<state, stateFile, tmpFile, main, api>>

----------------------------------------------------------------------------
(* The loop body after normalization *)

\* arguments = await self.resolve_default_sheet(arguments), up to its call
DefaultSheet(r) ==
    /\ req[r].pc = "default_sheet"
    /\ LET arguments == req[r].arguments
           filepath == dict_get(arguments, "filepath")
       IN  IF "sheet_name" \in DOMAIN arguments
              \/ filepath = Null \/ filepath.s = <<>>
           THEN Step(r, [req[r] EXCEPT !.pc = "validate"])
           ELSE Step(r, start_call(req[r], "metadata",
                                   "get_workbook_metadata", filepath.s, 0))
    /\ UNCHANGED <<state, stateFile, tmpFile, disk, mcp, main, api>>

\* (mutant) the loop body without `if not valid: continue`
passes_validation_sheet_only(tool_name, arguments, valid) ==
    ~(tool_requires_sheet(tool_name) /\ "sheet_name" \notin DOMAIN arguments)

\* whether the loop body goes on to "Execute tool" after validation
passes_validation(tool_name, arguments, valid) ==
    /\ ~(tool_requires_sheet(tool_name) /\ "sheet_name" \notin DOMAIN arguments)
    /\ valid

\* a string argument as Python holds it: None for a null value
str_or_none(v) == IF v = Null THEN None ELSE v.s

\* the "Execute tool" block up to its first await: the outcome
\* [W, rq] of dispatching the call. arguments[key] raises KeyError for an
\* absent key; a null name raises in _canonical_name (AttributeError), in
\* Path() or in the loop over names (TypeError).
dispatch(W, rq0) ==
    LET rq == [rq0 EXCEPT !.dispatches = rq0.dispatches + 1]
        tool_name == rq.tool_name
        arguments == rq.arguments
        raises(exc) == [W |-> W, rq |-> handle_exception(rq, exc, <<>>)]
    IN  CASE tool_name = "create_workbook" ->
               IF "filepath" \notin DOMAIN arguments THEN raises("KeyError")
               ELSE IF arguments["filepath"] = Null
               THEN raises("AttributeError")
               ELSE
               LET o == register_file(W, arguments["filepath"].s)
               IN  [W |-> o.W,
                    rq |-> start_call([rq EXCEPT !.registry = W.state],
                                      "create", tool_name, o.ret, 0)]
          [] tool_name = "create_multiple_worksheets" ->
               IF ~({"filepath", "sheet_names"} \subseteq DOMAIN arguments)
               THEN raises("KeyError")
               ELSE IF arguments["sheet_names"] = Null
               THEN raises("TypeError")
               ELSE
               [W |-> W,
                rq |-> IF arguments["sheet_names"].l = <<>>
                       THEN log_and_finish(rq, TRUE, <<"Created worksheets">>)
                       ELSE start_call(rq, "batch", "create_worksheet",
                                       str_or_none(arguments["filepath"]), 1)]
          [] tool_name = "rename_workbook" ->
               IF ~({"old_filepath", "new_filepath"} \subseteq DOMAIN arguments)
               THEN raises("KeyError")
               ELSE IF Null \in {arguments["old_filepath"],
                                 arguments["new_filepath"]}
               THEN raises("TypeError")
               ELSE
               LET o == rename_file(W, arguments["old_filepath"].s,
                                    arguments["new_filepath"].s)
               IN  [W |-> o.W,
                    rq |-> IF o.exc = "none"
                           THEN log_and_finish(rq, TRUE,
                                    <<"Renamed workbook to ">> \o o.ret)
                           ELSE handle_exception(rq, o.exc, o.msg)]
          [] OTHER ->
               [W |-> W,
                rq |-> start_call(rq, "generic", tool_name,
                           str_or_none(dict_get(arguments, "filepath")), 0)]

\* valid, error = validate_tool_call(..); the sheet guard; `if not valid`;
\* then the "Execute tool" block
ValidateDispatch(r) ==
    /\ req[r].pc = "validate"
    /\ LET v == validate_tool_call(req[r].tool_name, req[r].arguments)
           rq == record_error(req[r], v.msg)
       IN  IF tool_requires_sheet(rq.tool_name)
              /\ "sheet_name" \notin DOMAIN rq.arguments
           THEN /\ Step(r, next_attempt(record_error(rq,
                               <<"Tool requires sheet_name">>)))
                /\ UNCHANGED <<state, stateFile, tmpFile, disk>>
           ELSE IF ~passes_validation(rq.tool_name, rq.arguments, v.ok)
           THEN /\ Step(r, next_attempt(rq))
                /\ UNCHANGED <<state, stateFile, tmpFile, disk>>
           ELSE LET d == dispatch(W0, rq)
                IN  SetW(d.W) /\ Step(r, d.rq)
    /\ UNCHANGED <<mcp, main, api>>

----------------------------------------------------------------------------
(* Startup and shutdown: main(), ExcelAgent.initialize *)

\* agent.initialize(), first part: `if not await self.mcp_client.initialize():
\* return False`, on which main() returns 1
Initialize ==
    /\ main = "initialize"
    /\ \E hs \in Handshakes :
         /\ mcp' = initialize(mcp, hs)
         /\ main' = IF hs = "ok" THEN "list_tools" ELSE "exit"
    /\ UNCHANGED <<state, stateFile, tmpFile, disk, lock, req, api>>

\* agent.initialize(), second part: list_tools(), which restarts the child
\* and calls itself again on BrokenPipeError, then llm_client.initialize(),
\* whose result decides whether main() enters its loop
ListTools ==
    /\ main = "list_tools"
    /\ \E broken \in BOOLEAN, hs \in Handshakes, llm_ok \in BOOLEAN :
         IF mcp.initialized /\ broken
         THEN mcp' = _restart(mcp, hs) /\ main' = main
         ELSE mcp' = mcp /\ main' = IF llm_ok THEN "loop" ELSE "exit"
    /\ UNCHANGED <<state, stateFile, tmpFile, disk, lock, req, api>>

\* main() leaves its loop between two requests: mcp_client.close()
\* terminates the child and leaves the client's flag as it is
Close ==
    /\ main = "loop"
    /\ \A r \in Requests : req[r].pc \in {"idle", "done"}
    /\ main' = "exit"
    /\ UNCHANGED <<state, stateFile, tmpFile, disk, lock, mcp, req, api>>

----------------------------------------------------------------------------
(* The environment *)

\* a spreadsheet appears in the workspace directory out of band
ExternalCreate(n) ==
    /\ n \notin disk
    /\ disk' = disk \cup {n}
    /\ UNCHANGED <<state, stateFile, tmpFile, lock, mcp, main, req, api>>

\* a spreadsheet is removed from the workspace directory out of band
ExternalDelete(n) ==
    /\ n \in disk
    /\ disk' = disk \ {n}
    /\ UNCHANGED <<state, stateFile, tmpFile, lock, mcp, main, req, api>>

----------------------------------------------------------------------------
(* The specification *)

\* no registry or schema operation has been called directly
NoCallYet == [op |-> "none", args |-> <<>>, exc |-> "none", ret |-> None]

Init ==
    /\ state = _empty_state
    /\ stateFile = _empty_state
    /\ tmpFile = NoFile
    /\ disk = {}
    /\ lock = [locked |-> FALSE, waiters |-> <<>>]
    /\ mcp = [initialized |-> FALSE, handshake |-> "none", unread |-> 0]
    /\ main = "initialize"
    /\ req = [r \in Requests |-> IdleFrame]
    /\ api = NoCallYet

Next ==
    \/ Initialize
    \/ ListTools
    \/ Close
    \/ \E r \in Requests : AcquireLock(r)
    \/ \E r \in Requests : LockWakeup(r)
    \/ \E r \in Requests : LLMDecision(r)
    \/ \E r \in Requests : Normalize(r)
    \/ \E r \in Requests : DefaultSheet(r)
    \/ \E r \in Requests : ValidateDispatch(r)
    \/ \E r \in Requests : CallWrite(r)
    \/ \E r \in Requests : CallRestart(r)
    \/ \E r \in Requests : CallRead(r)
    \/ \E r \in Requests : Finally(r)
    \/ \E n \in DiskNames : ExternalCreate(n)
    \/ \E n \in DiskNames : ExternalDelete(n)

Spec == Init /\ [][Next]_vars

----------------------------------------------------------------------------
(* The registry called directly: register_file, resolve_file, rename_file,  *)
(* _reconcile_filesystem, with files appearing and disappearing out of band *)
(* and the process crashing inside _save_state and starting again           *)

FileUpperB == <<"B">>

\* the file names handed to the registry
WorkspaceNames == {FileUpperB, FileB, FileA}

\* what out-of-band creation and deletion act on: two spreadsheets whose
\* names differ only in case, and a file that is no spreadsheet
WorkspaceDiskNames == {_canonical_name(FileUpperB), _canonical_name(FileB), FileA}

\* the names handed to register_file: the loop body passes it the file
\* argument of a create_workbook proposal as the model gave it, so also a
\* path with a directory
RegisterNames == WorkspaceNames \cup {DirB}

\* the process is running: a crashed process calls nothing
alive == api.op # "crashed"

Called(op, args, o) == [op |-> op, args |-> args, exc |-> o.exc, ret |-> o.ret]

Register(filename) ==
    /\ alive
    /\ LET o == register_file(W0, filename)
       IN  SetW(o.W) /\ api' = Called("register_file", <<filename>>, o)
    /\ UNCHANGED <<lock, mcp, main, req>>

Resolve(filename) ==
    /\ alive
    /\ \E o \in resolve_file(W0, filename) :
         SetW(o.W) /\ api' = Called("resolve_file", <<filename>>, o)
    /\ UNCHANGED <<lock, mcp, main, req>>

Rename(old_name, new_name) ==
    /\ alive
    /\ LET o == rename_file(W0, old_name, new_name)
       IN  /\ SetW(o.W)
           /\ api' = Called("rename_file", <<old_name, new_name>>, o)
    /\ UNCHANGED <<lock, mcp, main, req>>

Reconcile ==
    /\ alive
    /\ SetW(_reconcile_filesystem(W0))
    /\ api' = [op |-> "_reconcile_filesystem", args |-> <<>>,
               exc |-> "none", ret |-> None]
    /\ UNCHANGED <<lock, mcp, main, req>>

\* The operations that reach their last _save_state from W: the workspace
\* when that save begins (pre: its files as the save finds them) and when
\* the operation returns (post). resolve_file saves once in
\* _reconcile_filesystem and once more when it has found the file.
SavingCalls(W) ==
    {[pre |-> W, post |-> register_file(W, n).W] : n \in RegisterNames}
    \cup {[pre |-> W, post |-> rename_file(W, c[1], c[2]).W] :
            c \in {c \in WorkspaceNames \X WorkspaceNames :
                       rename_file(W, c[1], c[2]).exc = "none"}}
    \cup {[pre |-> W, post |-> _reconcile_filesystem(W)]}
    \cup {[pre |-> _reconcile_filesystem(W), post |-> o.W] :
            o \in {o \in UNION {resolve_file(W, n) : n \in WorkspaceNames} :
                       o.exc = "none"}}

\* what a crash inside that save leaves in the directory
crash_states(pre, post) ==
    LET unsaved == [post EXCEPT !.stateFile = pre.stateFile,
                                !.tmpFile = pre.tmpFile]
        steps == save_steps(unsaved)
    IN  {steps[i] : i \in DOMAIN steps}

\* the process dies at a step of _save_state: the memory of the registry
\* is lost, the directory stays. api records the document the state file
\* held when the save began and the one being saved.
CrashInSave ==
    /\ alive
    /\ \E c \in SavingCalls(W0) :
         \E W \in crash_states(c.pre, c.post) :
            /\ SetW([W EXCEPT !.state = _empty_state])
            /\ api' = [op |-> "crashed",
                       args |-> <<c.pre.stateFile, c.post.state>>,
                       exc |-> "none", ret |-> None]
    /\ UNCHANGED <<lock, mcp, main, req>>

\* the program is started again: workspace = WorkspaceManager()
Restart ==
    /\ ~alive
    /\ SetW(__init__(W0))
    /\ api' = [op |-> "__init__", args |-> <<>>, exc |-> "none", ret |-> None]
    /\ UNCHANGED <<lock, mcp, main, req>>

NextWorkspace ==
    \/ \E n \in RegisterNames : Register(n)
    \/ \E n \in WorkspaceNames \cup {None, <<>>} : Resolve(n)
    \/ \E old_name, new_name \in WorkspaceNames : Rename(old_name, new_name)
    \/ Reconcile
    \/ CrashInSave
    \/ Restart
    \/ \E n \in WorkspaceDiskNames : ExternalCreate(n)
    \/ \E n \in WorkspaceDiskNames : ExternalDelete(n)

SpecWorkspace == Init /\ [][NextWorkspace]_vars

----------------------------------------------------------------------------
(* The normalizer called directly on a workspace whose files appear and    *)
(* disappear out of band                                                   *)

\* the proposals handed to normalize_arguments: a tool that creates, one that
\* renames and one that reads, with each file argument (one of them under an
\* alias) absent, null, or naming a file by a path with a directory
NormalizerTools == {"create_workbook", "rename_workbook", "read_data_from_excel"}
NormalizerArguments ==
    UNION {[keys -> {Null, Str(DirB)}] :
              keys \in SUBSET {"filepath", "old_file", "new_filepath"}}

\* normalize_arguments(arguments, self.state, tool_name); api records the
\* tool, the arguments given and the arguments returned
NormalizeCall(tool_name, arguments) ==
    /\ alive
    /\ \E o \in normalize_arguments(W0, arguments, tool_name) :
         /\ SetW(o.W)
         /\ api' = [op |-> "normalize_arguments",
                    args |-> <<tool_name, arguments, o.args>>,
                    exc |-> o.exc, ret |-> None]
    /\ UNCHANGED <<lock, mcp, main, req>>

\* what out-of-band creation and deletion act on: a spreadsheet whose name
\* differs in case from the one the proposals name, and a file that is no
\* spreadsheet
NormalizerDiskNames == {_canonical_name(FileB), FileA}

NextNormalizer ==
    \/ \E tool_name \in NormalizerTools :
         \E arguments \in NormalizerArguments :
            NormalizeCall(tool_name, arguments)
    \/ \E n \in NormalizerDiskNames : ExternalCreate(n)
    \/ \E n \in NormalizerDiskNames : ExternalDelete(n)

SpecNormalizer == Init /\ [][NextNormalizer]_vars

----------------------------------------------------------------------------
(* The pure operations, each called once on an input of a bounded set *)

\* file names: up to MaxNameLen letters and spaces, with or without ".xlsx"
NameChars == {"a", " "}
Filenames ==
    LET stems == UNION {[1..k -> NameChars] : k \in 1..MaxNameLen}
    IN  stems \cup {stem \o XLSX : stem \in stems}

\* the argument mappings of a tool: each required field, and one field the
\* schema does not know, absent, null or given
ArgumentMappings(tool_name) ==
    LET required == TOOL_SCHEMAS[tool_name]
        fields == {required[i] : i \in DOMAIN required} \cup {"note"}
    IN  UNION {[keys -> {Null, Str(<<"v">>)}] : keys \in SUBSET fields}

\* workspace._canonical_name(filename)
CanonicalName(filename) ==
    /\ api.op = "none"
    /\ api' = [op |-> "_canonical_name", args |-> <<filename>>,
               exc |-> "none", ret |-> _canonical_name(filename)]
    /\ UNCHANGED <<state, stateFile, tmpFile, disk, lock, mcp, main, req>>

\* tool_registry.validate_tool_call(tool_name, arguments)
ValidateToolCall(tool_name, arguments) ==
    /\ api.op = "none"
    /\ api' = [op |-> "validate_tool_call", args |-> <<tool_name, arguments>>,
               exc |-> "none",
               ret |-> validate_tool_call(tool_name, arguments)]
    /\ UNCHANGED <<state, stateFile, tmpFile, disk, lock, mcp, main, req>>

\* the replies of the language model
TextChars == {"{", "}", "k", "\"", "x"}
Texts == UNION {[1..n -> TextChars] : n \in 0..MaxTextLen}

\* extract_json_from_text(response)
ExtractJson(text) ==
    /\ api.op = "none"
    /\ api' = [op |-> "extract_json_from_text", args |-> <<text>>,
               exc |-> "none", ret |-> extract_json_from_text(text)]
    /\ UNCHANGED <<state, stateFile, tmpFile, disk, lock, mcp, main, req>>

\* every call is made in the initial state, so the choice of its input is
\* made there only
NextFunctions ==
    /\ api.op = "none"
    /\ \/ \E filename \in Filenames : CanonicalName(filename)
       \/ \E text \in Texts : ExtractJson(text)
       \/ \E tool_name \in DOMAIN TOOL_SCHEMAS :
            \E arguments \in ArgumentMappings(tool_name) :
               ValidateToolCall(tool_name, arguments)

SpecFunctions == Init /\ [][NextFunctions]_vars

----------------------------------------------------------------------------
(* Properties *)

\* the request is inside the try: block of execute_with_retry: it has
\* acquired the lock and has not yet run release_lock
InRetryLoop(r) ==
    req[r].pc \in {"llm", "normalize", "default_sheet", "validate", "call",
                   "finally"}

\* C1: the lock acquired by execute_with_retry is released on every exit
\* path (success, fatal error, exhaustion, unexpected exception): whenever no
\* request is inside its retry loop, the lock is free.
C1_LockReleasedOnEveryExit ==
    (\A r \in Requests : ~InRetryLoop(r)) => ~lock.locked

\* C1 witness: one request has ended by an unexpected exception and another
\* by exhaustion, and the lock is free.
C1_Witness ==
    /\ \E r \in Requests : req[r].pc = "done" /\ req[r].outcome = "raised"
    /\ \E r \in Requests : req[r].pc = "done" /\ req[r].outcome = "exhausted"
    /\ \A r \in Requests : ~InRetryLoop(r)
    /\ ~lock.locked

\* C2: at most one request is inside its retry loop at any time.
C2_OneRetryLoopAtATime ==
    \A r, q \in Requests : InRetryLoop(r) /\ InRetryLoop(q) => r = q

\* C2 witness: a request waits for the lock while another one, holding it, is
\* in its second attempt.
C2_Witness ==
    \E r, q \in Requests :
        /\ req[r].pc = "waiting"
        /\ InRetryLoop(q) /\ req[q].attempt = 2
        /\ lock.locked

\* C3 (as claimed): active_file is either unset or a key of files.
C3_ActiveFileIsTracked ==
    state.active_file = None \/ state.active_file \in DOMAIN state.files

\* C4 (as claimed): no error leaves execute_with_retry as an exception; every
\* request ends with a (success flag, string) pair by success, by a fatal
\* workspace error or by exhaustion.
C4_NoExceptionEscapes ==
    \A r \in Requests : req[r].outcome # "raised"

\* the step request r is about to take dispatches a rename whose source is
\* registered but missing on disk: rename_file raises FatalWorkspaceError
RenameRaisesFatal(r) ==
    /\ req[r].pc = "validate"
    /\ req[r].tool_name = "rename_workbook"
    /\ validate_tool_call(req[r].tool_name, req[r].arguments).ok
    /\ rename_file(W0, req[r].arguments["old_filepath"].s,
                   req[r].arguments["new_filepath"].s).exc = "Fatal"

\* C5: when an attempt raises a fatal workspace error the request returns
\* failure at once: the step that raises it ends the loop with the fatal
\* outcome, and from then on the request only runs its finally: block; it asks
\* for no further proposal and makes no further tool-process call.
C5_FatalReturnsImmediately ==
    [][\A r \in Requests :
          /\ (RenameRaisesFatal(r) /\ req'[r] # req[r])
                => (req'[r].pc = "finally" /\ req'[r].outcome = "fatal")
          /\ req[r].outcome = "fatal"
                => /\ req'[r].outcome = "fatal"
                   /\ req'[r].pc \in {"finally", "done"}
                   /\ req'[r].llm_calls <= req[r].llm_calls
                   /\ req'[r].dispatches <= req[r].dispatches]_vars

\* C5 witness: a request ended by a fatal workspace error in its first
\* attempt, with attempts remaining.
C5_Witness ==
    \E r \in Requests :
        /\ req[r].pc = "finally" /\ req[r].outcome = "fatal"
        /\ req[r].attempt = 1 /\ req[r].attempt < MAX_RETRIES

\* C6: a request asks the model for at most MAX_RETRIES proposals and
\* dispatches at most that many proposed tool calls.
C6_AtMostMaxRetriesProposals ==
    \A r \in Requests :
        /\ req[r].llm_calls <= MAX_RETRIES
        /\ req[r].dispatches <= MAX_RETRIES
        /\ req[r].dispatches <= req[r].llm_calls

\* C6 witness: a request whose three proposals were all dispatched and all
\* failed recoverably.
C6_Witness ==
    \E r \in Requests :
        /\ req[r].outcome = "exhausted"
        /\ req[r].llm_calls = MAX_RETRIES
        /\ req[r].dispatches = MAX_RETRIES

\* C7: a request that ends by exhaustion returns a message that marks the
\* exhaustion and carries the error recorded by the final attempt.
C7_ExhaustionCarriesFinalError ==
    \A r \in Requests :
        (req[r].pc = "finally" /\ req[r].outcome = "exhausted")
            => /\ req[r].result
                    = <<"Max retries exceeded. Last error: ">> \o req[r].error
               /\ req[r].result # req[r].error
               /\ req[r].error # None
               /\ req[r].attempt = MAX_RETRIES
               /\ req[r].error_at = MAX_RETRIES

\* C7 witness: a request exhausted its attempts and the final attempt failed
\* in the tool process after at least one earlier attempt was dispatched too.
C7_Witness ==
    \E r \in Requests :
        /\ req[r].pc = "finally" /\ req[r].outcome = "exhausted"
        /\ req[r].error = <<"tool process error">>
        /\ req[r].dispatches >= 2

\* C8: a proposal is dispatched only if, in that attempt, validate_tool_call
\* accepts its tool name and normalized arguments (a known tool, no required
\* field absent or null) and, for the tools that require a sheet, a sheet
\* reference is present.
C8_DispatchOnlyIfValid ==
    [][\A r \in Requests :
          req'[r].dispatches > req[r].dispatches
            => /\ req[r].pc = "validate"
               /\ validate_tool_call(req[r].tool_name, req[r].arguments).ok
               /\ req[r].tool_name \in DOMAIN TOOL_SCHEMAS
               /\ \A i \in DOMAIN TOOL_SCHEMAS[req[r].tool_name] :
                    LET field == TOOL_SCHEMAS[req[r].tool_name][i]
                    IN  /\ field \in DOMAIN req[r].arguments
                        /\ req[r].arguments[field] # Null
               /\ tool_requires_sheet(req[r].tool_name)
                    => "sheet_name" \in DOMAIN req[r].arguments]_vars

\* C8 witness: a sheet-requiring tool has been dispatched to the tool process
\* with the sheet reference that default-sheet resolution supplied.
C8_Witness ==
    \E r \in Requests :
        /\ req[r].pc = "call" /\ req[r].call.purpose = "generic"
        /\ req[r].tool_name = "write_data_to_excel"
        /\ req[r].dispatches = 1
        /\ req[r].arguments["sheet_name"] = Str(Sheet1)

\* C9 (as claimed): within one call_tool invocation at most one restart
\* happens.
C9_AtMostOneRestart ==
    \A r \in Requests : req[r].call.restarts <= 1

\* call_tool has just restarted the child process and the handshake failed
RestartFailed(r) ==
    /\ req[r].pc = "call" /\ req[r].call.phase = "enter"
    /\ req[r].call.handshake \in {"no_output", "error"}

\* C10: if the restart triggered by a broken pipe fails, the client is left
\* not ready and the call returns (False, "Client not initialized") without
\* writing to the pipe again.
C10_FailedRestartFailsTheCall ==
    [][\A r \in Requests :
          RestartFailed(r)
            => /\ ~mcp.initialized /\ ~mcp'.initialized
               /\ req'[r] # req[r]
                    => req'[r] = call_returns(req[r], FALSE,
                                    <<"Client not initialized">>, <<>>)]_vars

\* C10 witness: a dispatched call restarted the child, the handshake gave no
\* output, and the client is not ready.
C10_Witness ==
    \E r \in Requests :
        /\ RestartFailed(r)
        /\ req[r].call.handshake = "no_output"
        /\ req[r].call.purpose = "create"
        /\ ~mcp.initialized

\* C11 (as claimed): once a request has succeeded and the registry has an
\* active file, a worksheet-creation proposal reaches validation and dispatch
\* with the active file's path as its file argument, whether or not the
\* proposal named a file.
C11_ActiveFileSuppliesMissingFile ==
    \A r \in Requests :
        (/\ req[r].pc = "validate"
         /\ req[r].tool_name = "create_worksheet"
         /\ \E q \in Requests :
                req[q].pc = "done" /\ req[q].outcome = "success"
         /\ state.active_file \in DOMAIN state.files)
            => dict_get(req[r].arguments, "filepath")
                    = Str(state.files[state.active_file])

\* C19 (as claimed): every attempt of the retry loop appends exactly one
\* record to the execution log, whatever its outcome: when attempt k begins
\* the request has logged k - 1 records, and when the request returns it has
\* logged one record per attempt made.
C19_EveryAttemptLogged ==
    \A r \in Requests :
        /\ req[r].pc = "llm" => req[r].logs = req[r].attempt - 1
        /\ (req[r].pc = "finally" /\ req[r].outcome # "raised")
                => req[r].logs = req[r].attempt

\* C20: the client is marked ready only by a successful handshake. In every
\* state in which it is marked ready the handshake with the current child
\* process succeeded; a handshake that gave no output or an error response
\* leaves the client not ready, and at startup makes initialization fail, so
\* that main() exits.
C20_ReadyOnlyBySuccessfulHandshake ==
    [][/\ mcp'.initialized => mcp'.handshake = "ok"
       /\ mcp'.handshake \in {"no_output", "error"} => ~mcp'.initialized
       /\ (~mcp.initialized /\ mcp'.initialized)
            => (main = "initialize" \/ main = "list_tools"
                \/ \E r \in Requests : req[r].call.phase = "restart")
       /\ (main = "initialize" /\ main' # main)
            => (main' = "exit" <=> mcp'.handshake \in {"no_output", "error"})
      ]_vars

\* C20 witness: the client became ready at startup, a later restart's
\* handshake got an error response, and the client is not ready.
C20_Witness ==
    /\ main = "loop"
    /\ ~mcp.initialized /\ mcp.handshake = "error"
    /\ \E r \in Requests :
            req[r].pc = "call" /\ req[r].call.restarts = 1

\* C15 (as claimed): _canonical_name is idempotent and its result ends in
\* ".xlsx", for every non-empty file name, names with leading or trailing
\* whitespace and with runs of several interior spaces included.
C15_CanonicalNameIdempotent ==
    api.op = "_canonical_name"
        => /\ _canonical_name(api.ret) = api.ret
           /\ endswith(api.ret, XLSX)

\* C16: for every registered tool and every argument mapping,
\* validate_tool_call fails if and only if some required field is absent or
\* null, its failure message lists every such field and no other, and the
\* call changes nothing: the workspace, the client and the requests are as
\* before it.
C16_ValidateListsEveryMissingField ==
    api.op = "validate_tool_call"
        => LET tool_name == api.args[1]
               arguments == api.args[2]
               required == TOOL_SCHEMAS[tool_name]
               lacking == {i \in DOMAIN required :
                             \/ required[i] \notin DOMAIN arguments
                             \/ arguments[required[i]] = Null}
               listed(field) ==
                   \E j \in 2..Len(api.ret.msg) : api.ret.msg[j] = field
           IN  /\ api.ret.ok <=> lacking = {}
               /\ ~api.ret.ok
                    => /\ api.ret.msg[1] = "Missing required fields: "
                       /\ \A i \in DOMAIN required :
                            listed(required[i]) <=> i \in lacking
               /\ W0 = [state |-> _empty_state, stateFile |-> _empty_state,
                         tmpFile |-> NoFile, disk |-> {}]
               /\ req = [r \in Requests |-> IdleFrame]
               /\ mcp = [initialized |-> FALSE, handshake |-> "none", unread |-> 0]

\* C16 witness: a call that lacks one required field and carries another as
\* null has failed.
C16_Witness ==
    /\ api.op = "validate_tool_call"
    /\ api.args[1] = "write_data_to_excel"
    /\ DOMAIN api.args[2] = {"sheet_name", "data", "note"}
    /\ api.args[2]["sheet_name"] = Null
    /\ api.args[2]["data"] # Null
    /\ ~api.ret.ok
    /\ Len(api.ret.msg) = 3

\* C12 (as claimed): after register_file(name), resolve_file of the
\* lower-cased canonical name and resolve_file(None) both return, and return
\* the same path, until another file is registered or resolved.
C12_ResolveAfterRegister ==
    api.op = "register_file"
        => LET canonical == _canonical_name(api.args[1])
           IN  \A by_name \in resolve_file(W0, lower(canonical)) :
                 \A by_active \in resolve_file(W0, None) :
                    /\ by_name.exc = "none"
                    /\ by_active.exc = "none"
                    /\ by_name.ret = by_active.ret

\* C13: rename_file fails with a recoverable error exactly when the
\* canonical old name is not registered, and with a fatal error exactly when
\* it is registered but its registered path is not on disk; in every other
\* case it returns.
C13_RenameErrorSeverity ==
    [][\A old_name, new_name \in WorkspaceNames :
          Rename(old_name, new_name)
            => LET old_canon == _canonical_name(path_name(old_name))
                   tracked == old_canon \in DOMAIN state.files
                   on_disk == /\ tracked
                              /\ \E n \in disk :
                                    root_join(n) = state.files[old_canon]
               IN  /\ api'.exc = "Recoverable" <=> ~tracked
                   /\ api'.exc = "Fatal" <=> (tracked /\ ~on_disk)
                   /\ api'.exc = "none" <=> on_disk]_vars

\* C13 witness: a rename has failed with a fatal error while its source is
\* registered, and the registered file is not on disk.
C13_Witness ==
    /\ api.op = "rename_file" /\ api.exc = "Fatal"
    /\ _canonical_name(api.args[1]) \in DOMAIN state.files
    /\ _canonical_name(api.args[1]) \notin disk

\* C14: rename_file never updates the registry in part. When it returns, the
\* file has been renamed on disk, the registry holds the new key with the new
\* path, no longer holds the old key (when the two canonical names differ),
\* keeps every other entry, has active_file set to the new name and is
\* persisted; when it fails, the registry, the active pointer, the persisted
\* document and the files on disk are as before the call.
C14_RenameAllOrNothing ==
    [][\A old_name, new_name \in WorkspaceNames :
          Rename(old_name, new_name)
            => LET old_canon == _canonical_name(path_name(old_name))
                   new_canon == _canonical_name(path_name(new_name))
               IN  IF api'.exc = "none"
                   THEN /\ new_canon \in disk'
                        /\ old_canon # new_canon => old_canon \notin disk'
                        /\ disk' \ {new_canon} = disk \ {old_canon, new_canon}
                        /\ DOMAIN state'.files
                              = ((DOMAIN state.files) \ {old_canon})
                                    \cup {new_canon}
                        /\ state'.files[new_canon] = root_join(new_canon)
                        /\ api'.ret = root_join(new_canon)
                        /\ \A k \in (DOMAIN state'.files) \ {new_canon} :
                              state'.files[k] = state.files[k]
                        /\ state'.active_file = new_canon
                        /\ stateFile' = state'
                   ELSE /\ state' = state
                        /\ stateFile' = stateFile
                        /\ disk' = disk]_vars

\* C14 witness: a rename has returned: the new name is on disk, registered
\* and active, and the old name is neither on disk nor registered.
C14_Witness ==
    /\ api.op = "rename_file" /\ api.exc = "none"
    /\ api.args = <<FileUpperB, FileA>>
    /\ state.active_file = _canonical_name(FileA)
    /\ _canonical_name(FileA) \in disk
    /\ _canonical_name(FileUpperB) \notin disk
    /\ _canonical_name(FileUpperB) \notin DOMAIN state.files

\* C17: when _reconcile_filesystem returns, the keys of the registry are
\* exactly the names of the spreadsheet files in the workspace directory at
\* that moment: entries whose file is gone are removed, files created out of
\* band are added with their path, entries that stay keep their path, and the
\* result is persisted.
C17_ReconcileMatchesDisk ==
    [][Reconcile
         => /\ DOMAIN state'.files = {n \in disk : endswith(n, XLSX)}
            /\ \A n \in DOMAIN state'.files :
                  state'.files[n] = IF n \in DOMAIN state.files
                                    THEN state.files[n] ELSE root_join(n)
            /\ disk' = disk
            /\ stateFile' = state']_vars

\* C17 witness: reconciliation has returned with a registry that holds a
\* spreadsheet created out of band, has dropped the entry of the registered
\* file that is not on disk, and ignores a file that is no spreadsheet.
C17_Witness ==
    /\ api.op = "_reconcile_filesystem"
    /\ disk = {_canonical_name(FileB), FileA}
    /\ DOMAIN state.files = {_canonical_name(FileB)}
    /\ state.active_file = _canonical_name(FileUpperB)

\* C18: the registry is persisted by every operation that changes it, by
\* writing a temporary file and renaming it over the state file. While the
\* process runs, the state file holds the in-memory state whenever an
\* operation has returned; whatever step of a save a crash hits, the state
\* file holds a complete document, either the one it held when the save
\* began or the one being saved, and never part of one.
C18_PersistedAtomically ==
    /\ is_document(stateFile)
    /\ alive => (stateFile = state /\ tmpFile = NoFile)
    /\ ~alive => stateFile \in {api.args[1], api.args[2]}

\* C18 witness: the process crashed while the temporary file was being
\* written during a save; the state file still holds the earlier registry,
\* which is not empty.
C18_Witness ==
    /\ api.op = "crashed"
    /\ tmpFile = Partial(api.args[2])
    /\ stateFile = api.args[1]
    /\ stateFile # api.args[2]
    /\ DOMAIN stateFile.files # {}

\* the requests whose call_tool has written its request line and has not yet
\* read the response line
InFlight ==
    {r \in Requests : req[r].pc = "call" /\ req[r].call.phase = "read"}

\* C21: the protocol with the tool process is one request, one response:
\* the request lines written and not yet answered are those of the calls
\* between their write and their read, and there is never more than one, so
\* every request line written is followed by its response line being read
\* before another request line is written, whatever the interleaving of the
\* user requests.
C21_OneCallInFlight ==
    /\ mcp.unread = Cardinality(InFlight)
    /\ mcp.unread <= 1

\* C21 witness: one request has written its request line and awaits the
\* response while another request waits for the lock, after an earlier call
\* of the running request was answered.
C21_Witness ==
    \E r, q \in Requests :
        /\ r # q
        /\ InFlight = {r}
        /\ mcp.unread = 1
        /\ req[r].attempt > 1 /\ req[r].logs > 0
        /\ req[q].pc = "waiting"

\* C22: normalize_arguments resolves against the files on disk exactly the
\* file argument of a tool other than create_workbook and the old-file
\* argument, when present and not null: each becomes the path of a
\* spreadsheet on disk whose name matches without regard to case, and the
\* call fails recoverably exactly when one of them matches none. The file
\* argument of create_workbook is left as given; a new-file argument becomes
\* the canonical bare file name whether or not such a file exists; with
\* nothing to resolve the call does not fail and the registry is unchanged.
C22_ResolutionOnlyOfExistingFiles ==
    [][(api'.op = "normalize_arguments"
          /\ NormalizeCall(api'.args[1], api'.args[2]))
        => LET tool_name == api'.args[1]
               given == alias_keys(api'.args[2])
               normalized == api'.args[3]
               present(k) == k \in DOMAIN given /\ given[k] # Null
               resolved ==
                   {k \in {"filepath", "old_filepath"} :
                       /\ present(k)
                       /\ k = "filepath" => tool_name # "create_workbook"}
               on_disk(k) ==
                   {n \in disk :
                       /\ endswith(n, XLSX)
                       /\ lower(n)
                            = lower(_canonical_name(path_name(given[k].s)))}
           IN  /\ api'.exc = "Recoverable"
                     <=> \E k \in resolved : on_disk(k) = {}
               /\ api'.exc \in {"none", "Recoverable"}
               /\ resolved = {} => (state' = state /\ stateFile' = stateFile)
               /\ api'.exc = "none"
                     => /\ DOMAIN normalized = DOMAIN given
                        /\ \A k \in DOMAIN given :
                             IF k \in resolved
                             THEN \E n \in on_disk(k) :
                                     normalized[k] = Str(root_join(n))
                             ELSE IF k = "new_filepath" /\ present(k)
                             THEN normalized[k]
                                    = Str(_canonical_name(
                                            path_name(given[k].s)))
                             ELSE normalized[k] = given[k]]_vars

\* C22 witness: a rename proposal was normalized: its source, given by a
\* path with a directory, became the path of the file on disk, and its
\* target became a canonical name although no such file exists and none is
\* registered; a creation proposal's file argument would be left alone.
C22_Witness ==
    /\ api.op = "normalize_arguments" /\ api.exc = "none"
    /\ api.args[1] = "rename_workbook"
    /\ api.args[2] = ("old_file" :> Str(DirB)) @@ ("new_filepath" :> Str(DirB))
    /\ api.args[3]["old_filepath"] = Str(root_join(_canonical_name(FileB)))
    /\ api.args[3]["new_filepath"] = Str(_canonical_name(FileUpperB))
    /\ _canonical_name(FileUpperB) \notin disk
    /\ _canonical_name(FileUpperB) \notin DOMAIN state.files

\* a file name without directory component
is_bare(name) == \A i \in DOMAIN name : name[i] # "/"

\* C23 (as claimed): every path the registry stores is the workspace root
\* joined with a bare file name, so no entry names a file in a subdirectory
\* of the root or outside it.
C23_RegistryPathsUnderRoot ==
    \A canon \in DOMAIN state.files :
        /\ is_bare(canon)
        /\ state.files[canon] = root_join(canon)

\* C24 (as claimed): resolve_file called with None or the empty name has two
\* outcomes only: it returns the path of the active file, or, when no active
\* file is set, it fails with the recoverable "No active workbook available".
C24_ResolveOfNoNameTwoOutcomes ==
    (api.op = "resolve_file" /\ ~truthy(api.args[1]))
        => \/ /\ api.exc = "none"
              /\ truthy(state.active_file)
              /\ api.ret = state.files[state.active_file]
           \/ /\ api.exc = "Recoverable"
              /\ ~truthy(state.active_file)

\* json.dumps without white space: the text of a value
RECURSIVE dumps(_)
dumps(v) ==
    IF v.t = "str" THEN <<"\"">> \o v.s \o <<"\"">>
    ELSE IF v.m = <<>> THEN <<"{", "}">>
    ELSE <<"{", "k">> \o dumps(v.m[1]) \o <<"}">>

\* the number of characters c among text[from..to]
count(text, c, from, to) == Cardinality({j \in from..to : text[j] = c})

\* C25: extract_json_from_text finds the span that starts at the first
\* opening brace of the reply and ends at the first closing brace that
\* brings the depth back to zero, and decodes that span only. It yields the
\* object whose text that span is, and nothing when the reply has no opening
\* brace, when the braces after the first opening one never balance, or
\* when the span is not the text of an object; prose around a nested object
\* yields the object.
C25_FirstBalancedSpan ==
    api.op = "extract_json_from_text"
        => LET text == api.args[1]
               opens == {i \in DOMAIN text : text[i] = "{"}
               start == CHOOSE i \in opens : \A j \in opens : i <= j
               balanced ==
                   {i \in start..Len(text) :
                       count(text, "{", start, i) = count(text, "}", start, i)}
               end == CHOOSE i \in balanced : \A j \in balanced : i <= j
               span == SubSeq(text, start, end)
           IN  /\ opens = {} => api.ret = Null
               /\ (opens # {} /\ balanced = {}) => api.ret = Null
               /\ (opens # {} /\ balanced # {})
                     => /\ api.ret # Null
                             => (api.ret.t = "dict" /\ dumps(api.ret) = span)
                        /\ api.ret = Null
                             => json_loads(span).exc = "JSONDecodeError"
               /\ text = <<"x", "{", "k", "{", "}", "}", "x">>
                     => api.ret = Dict(<<Dict(<<>>)>>)

\* C25 witness: a reply with prose before and after a nested object has
\* yielded that object.
C25_Witness ==
    /\ api.op = "extract_json_from_text"
    /\ api.args[1] = <<"x", "{", "k", "{", "}", "}", "x">>
    /\ api.ret = Dict(<<Dict(<<>>)>>)

\* C26: create_multiple_worksheets calls create_worksheet once per name, in
\* the order of the list, and stops at the first failure: the call for the
\* first name is made before any call returned, the call for a later name
\* only when the call before it succeeded; after a failed call the batch
\* makes no further call and the attempt has failed, and the attempt
\* succeeds only if no call of the batch failed.
C26_BatchStopsAtFirstFailure ==
    \A r \in Requests :
        /\ (req[r].pc = "call" /\ req[r].call.purpose = "batch")
              => /\ req[r].call.tool = "create_worksheet"
                 /\ req[r].call.index
                       \in 1..Len(req[r].arguments["sheet_names"].l)
                 /\ req[r].call.index = 1 => req[r].success = "unbound"
                 /\ req[r].call.index > 1 => req[r].success = "True"
        /\ req[r].success = "False"
              => (req[r].pc = "finally" /\ req[r].outcome = "exhausted")
        /\ (req[r].pc = "finally" /\ req[r].outcome = "success")
              => req[r].success # "False"

\* C26 witness: the call for the second name of a batch is awaiting its
\* response, the call for the first name having succeeded.
C26_Witness ==
    \E r \in Requests :
        /\ req[r].pc = "call" /\ req[r].call.purpose = "batch"
        /\ req[r].call.phase = "read"
        /\ req[r].call.index = 2
        /\ req[r].arguments["sheet_names"] = List(<<Sheet1, Sheet2>>)
        /\ req[r].success = "True"

\* C27 (as claimed): during an attempt whose proposal is rename_workbook no
\* request is written to the tool process, whatever arguments the proposal
\* carries.
C27_RenameWritesNoRequest ==
    \A r \in Requests :
        req[r].tool_name = "rename_workbook"
            => ~(req[r].pc = "call" /\ req[r].call.phase = "read")

\* C28 (as claimed): workbook metadata is queried through the tool process
\* only for a tool that takes a sheet reference and was given none; for any
\* other tool no metadata call is made and no sheet reference is added to
\* the arguments.
C28_DefaultSheetOnlyForSheetTools ==
    \A r \in Requests :
        (req[r].pc = "call" /\ req[r].call.purpose = "metadata")
            => /\ tool_requires_sheet(req[r].tool_name)
               /\ "sheet_name" \notin DOMAIN req[r].arguments

TerminalOutcomes == {"success", "fatal", "exhausted"}

\* C30 (as claimed): every request that acquires the lock eventually ends
\* with a terminal outcome (success, fatal failure or exhausted). A request that has left execute_with_retry takes no further
\* step, so it has reached its terminal outcome by then or never does.
C30_EveryRequestEndsInTerminalOutcome ==
    \A r \in Requests :
        req[r].pc = "done" => req[r].outcome \in TerminalOutcomes

\* a step in which request r asks the model and gets no proposal or a
\* proposal without a tool name
NoProposalAttempt(r) ==
    /\ req[r].pc = "llm"
    /\ req'[r].llm_calls = req[r].llm_calls + 1
    /\ req'[r].pc # "normalize"

\* C31: an attempt in which the model yields no parseable proposal, or a
\* proposal with no tool name, changes nothing outside the retry loop: the
\* registry, its persisted document and the disk are unchanged, nothing is
\* written to the tool process or to the execution log, the lock and the
\* other requests are untouched, and the request itself only records the
\* error and moves to its next attempt (or, after the last attempt, to the
\* exhausted return).
C31_NoProposalAttemptHasNoEffect ==
    [][\A r \in Requests :
         NoProposalAttempt(r)
           => /\ state' = state /\ stateFile' = stateFile
              /\ tmpFile' = tmpFile /\ disk' = disk
              /\ mcp' = mcp /\ lock' = lock /\ main' = main
              /\ \A q \in Requests \ {r} : req'[q] = req[q]
              /\ req'[r].logs = req[r].logs
              /\ req'[r].dispatches = req[r].dispatches
              /\ req'[r].call = NoCall
              /\ req'[r].error = <<"LLM failed to produce valid JSON">>
              /\ req'[r].error_at = req[r].attempt
              /\ \/ /\ req[r].attempt < MAX_RETRIES
                    /\ req'[r].pc = "llm"
                    /\ req'[r].attempt = req[r].attempt + 1
                 \/ /\ req[r].attempt = MAX_RETRIES
                    /\ req'[r].pc = "finally"
                    /\ req'[r].outcome = "exhausted"
                    /\ req'[r].attempt = req[r].attempt]_vars

\* C31 witness: a request whose first attempt dispatched a call that failed
\* and whose second attempt got no proposal is about to ask a third time,
\* with a tracked active workbook and no unanswered call.
C31_Witness ==
    \E r \in Requests :
        /\ req[r].pc = "llm" /\ req[r].attempt = 3
        /\ req[r].error = <<"LLM failed to produce valid JSON">>
        /\ req[r].error_at = 2
        /\ req[r].llm_calls = 2 /\ req[r].dispatches = 1 /\ req[r].logs = 1
        /\ state.active_file # None
        /\ state.active_file \in DOMAIN state.files
        /\ mcp.unread = 0

\* C32 (as claimed): rename(old, new) never destroys another tracked file:
\* a rename that returns leaves the number of registry entries unchanged,
\* and when new's canonical name was registered for a file other than old,
\* that file is still on disk beside the renamed one (no file is lost).
C32_RenameDestroysNoTrackedFile ==
    [][\A old_name, new_name \in WorkspaceNames :
          (Rename(old_name, new_name) /\ api'.exc = "none")
            => LET old_canon == _canonical_name(path_name(old_name))
                   new_canon == _canonical_name(path_name(new_name))
               IN  /\ Cardinality(DOMAIN state'.files)
                         = Cardinality(DOMAIN state.files)
                   /\ (new_canon \in DOMAIN state.files
                         /\ new_canon # old_canon /\ new_canon \in disk)
                        => Cardinality(disk') = Cardinality(disk)]_vars

\* a step in which the create_workbook call of request r returns a failure
FailedCreate(r) ==
    /\ req[r].pc = "call" /\ req[r].call.purpose = "create"
    /\ req'[r].pc # "call"
    /\ req'[r].outcome # "success"

\* C33 (as claimed): a workbook-creation attempt whose tool-process call
\* fails leaves the registry as it was: when the file was not tracked
\* before the attempt and does not exist after it, files has no entry for
\* it and active_file does not name it.
C33_FailedCreateLeavesRegistry ==
    [][\A r \in Requests :
         FailedCreate(r)
           => LET canonical == Tail(req[r].call.filepath)
              IN  (canonical \notin DOMAIN req[r].registry.files
                     /\ canonical \notin disk')
                    => /\ canonical \notin DOMAIN state'.files
                       /\ state'.active_file # canonical]_vars

====
